---- MODULE Spec2Model ----
(***************************************************************************)
(* Model of pkg/image/api/helper.go: the pull-spec parser and formatter,   *)
(* the manifest metadata extractor and the tag resolver.                   *)
(*                                                                         *)
(* Go strings are sequences of one-character strings.  Every operation is  *)
(* a pure function, so a behaviour is one call: Init draws the operation   *)
(* and its arguments, and the operation's action computes the result.      *)
(***************************************************************************)
EXTENDS Integers, Sequences, FiniteSets, TLC

VARIABLES op, arg, res, pc

vars == <<op, arg, res, pc>>

\* ---------------------------------------------------------------- bounds
MaxLen == 7
MaxCompLen == 2
MaxRefLen == 2
MaxHistory == 2
MaxItems == 2

\* the characters of the pull specs handed to the parser
SpecChars == {"a", "b", ":", "/", "@"}

\* ------------------------------------------------------- string helpers
RECURSIVE SeqsUpTo(_, _)
SeqsUpTo(S, n) ==
    IF n = 0 THEN {<<>>}
    ELSE LET shorter == SeqsUpTo(S, n - 1)
         IN  shorter \cup {Append(s, c) : s \in {t \in shorter : Len(t) = n - 1}, c \in S}

\* strings.Contains(s, c) for a one-character c
Contains(s, c) == \E i \in 1..Len(s) : s[i] = c

\* strings.Index(s, c): first position of c (1-based), 0 when absent
Index(s, c) ==
    IF Contains(s, c) THEN CHOOSE i \in 1..Len(s) : s[i] = c /\ \A j \in 1..(i - 1) : s[j] # c
    ELSE 0

\* strings.LastIndex(s, c): last position of c (1-based), 0 when absent
LastIndex(s, c) ==
    IF Contains(s, c) THEN CHOOSE i \in 1..Len(s) : s[i] = c /\ \A j \in (i + 1)..Len(s) : s[j] # c
    ELSE 0

\* strings.Split(s, "/"): the segments between the slashes, empty ones kept
RECURSIVE Split(_)
Split(s) ==
    LET n == Index(s, "/")
    IN  IF n = 0 THEN <<s>>
        ELSE <<SubSeq(s, 1, n - 1)>> \o Split(SubSeq(s, n + 1, Len(s)))

\* t occurs in s as a contiguous substring
IsSubstring(t, s) ==
    \E i \in 0..(Len(s) - Len(t)) : SubSeq(s, i + 1, i + Len(t)) = t

\* ------------------------------------------------------ pull-spec parser
\* docker.ParseRepositoryTag: an '@' splits off a digest ref; otherwise the
\* text after the last ':' is a tag unless it contains a '/'.
ParseRepositoryTag(repos) ==
    LET a == Index(repos, "@")
        n == LastIndex(repos, ":")
    IN  IF a > 0 THEN <<SubSeq(repos, 1, a - 1), SubSeq(repos, a + 1, Len(repos))>>
        ELSE IF n = 0 THEN <<repos, <<>>>>
        ELSE IF ~Contains(SubSeq(repos, n + 1, Len(repos)), "/")
             THEN <<SubSeq(repos, 1, n - 1), SubSeq(repos, n + 1, Len(repos))>>
        ELSE <<repos, <<>>>>

ErrText1 == <<"t","h","e"," ","d","o","c","k","e","r"," ","p","u","l","l"," ","s","p","e","c"," ">>

ErrText2 == <<" ","m","u","s","t"," ","b","e"," ","t","w","o"," ","o","r"," ","t","h","r","e","e"," ",
              "s","e","g","m","e","n","t","s"," ","s","e","p","a","r","a","t","e","d"," ","b","y"," ",
              "s","l","a","s","h","e","s">>

\* fmt's %q of a string without characters that need escaping
Quote(s) == <<"\"">> \o s \o <<"\"">>

\* fmt.Errorf("the docker pull spec %q must be two or three segments separated by slashes", spec)
InvalidSpecError(spec) == [kind |-> "InvalidSpec", msg |-> ErrText1 \o Quote(spec) \o ErrText2]

Nil == [kind |-> "nil"]

PullSpec(registry, namespace, name, ref, err) ==
    [registry |-> registry, namespace |-> namespace, name |-> name, ref |-> ref, err |-> err]

\* SplitOpenShiftPullSpec with the registry and the namespace of a
\* three-segment spec exchanged
SplitSwapped(spec0) ==
    LET parsed == ParseRepositoryTag(spec0)
        spec == parsed[1]
        ref == parsed[2]
        arr == Split(spec)
    IN  CASE Len(arr) = 2 -> PullSpec(<<>>, arr[1], arr[2], ref, Nil)
          [] Len(arr) = 3 -> PullSpec(arr[2], arr[1], arr[3], ref, Nil)
          [] Len(arr) = 1 ->
                IF Len(arr[1]) = 0
                THEN PullSpec(<<>>, <<>>, <<>>, ref, InvalidSpecError(spec))
                ELSE PullSpec(<<>>, <<>>, arr[1], ref, Nil)
          [] OTHER -> PullSpec(<<>>, <<>>, <<>>, ref, InvalidSpecError(spec))

SplitOpenShiftPullSpec(spec0) ==
    LET parsed == ParseRepositoryTag(spec0)
        spec == parsed[1]
        ref == parsed[2]
        arr == Split(spec)
    IN  CASE Len(arr) = 2 -> PullSpec(<<>>, arr[1], arr[2], ref, Nil)
          [] Len(arr) = 3 -> PullSpec(arr[1], arr[2], arr[3], ref, Nil)
          [] Len(arr) = 1 ->
                IF Len(arr[1]) = 0
                THEN PullSpec(<<>>, <<>>, <<>>, ref, InvalidSpecError(spec))
                ELSE PullSpec(<<>>, <<>>, arr[1], ref, Nil)
          [] OTHER -> PullSpec(<<>>, <<>>, <<>>, ref, InvalidSpecError(spec))

SplitDockerPullSpec(spec) == SplitOpenShiftPullSpec(spec)

IsPullSpec(spec) == SplitDockerPullSpec(spec).err = Nil

\* --------------------------------------------------- pull-spec formatter
DockerDefaultNamespace == <<"l","i","b","r","a","r","y">>

\* JoinDockerPullSpec without the namespace defaulting
JoinNoDefault(registry, namespace, name, ref0) ==
    LET ref == IF Len(ref0) # 0
               THEN IF Contains(ref0, ":") THEN <<"@">> \o ref0 ELSE <<":">> \o ref0
               ELSE ref0
    IN  IF Len(namespace) = 0 /\ Len(registry) = 0 THEN name \o ref
        ELSE IF Len(registry) = 0 THEN namespace \o <<"/">> \o name \o ref
        ELSE registry \o <<"/">> \o namespace \o <<"/">> \o name \o ref

\* JoinDockerPullSpec rendering every ref as a tag
JoinTagOnly(registry, namespace, name, ref0) ==
    LET ref == IF Len(ref0) # 0 THEN <<":">> \o ref0 ELSE ref0
    IN  IF Len(namespace) = 0 /\ Len(registry) = 0 THEN name \o ref
        ELSE LET ns == IF Len(namespace) = 0 THEN DockerDefaultNamespace ELSE namespace
             IN  IF Len(registry) = 0 THEN ns \o <<"/">> \o name \o ref
                 ELSE registry \o <<"/">> \o ns \o <<"/">> \o name \o ref

JoinDockerPullSpec(registry, namespace, name, ref0) ==
    LET ref == IF Len(ref0) # 0
               THEN IF Contains(ref0, ":") THEN <<"@">> \o ref0 ELSE <<":">> \o ref0
               ELSE ref0
    IN  IF Len(namespace) = 0 /\ Len(registry) = 0 THEN name \o ref
        ELSE LET ns == IF Len(namespace) = 0 THEN DockerDefaultNamespace ELSE namespace
             IN  IF Len(registry) = 0 THEN ns \o <<"/">> \o name \o ref
                 ELSE registry \o <<"/">> \o ns \o <<"/">> \o name \o ref

\* ------------------------------------------------ manifest JSON decoding
\* The manifest text stands for {"history":[{"v1Compatibility":"..."},...]}:
\* '[' opens the history array, ']' closes it, each entry is a string
\* between two quote characters, and entries are separated by ','; the
\* text {} is an object without a history key.
\* The compatibility text stands for a JSON object: '{', then key/value
\* character pairs, then '}'.
Fields == <<"ID", "Parent", "Comment", "Created", "Container", "ContainerConfig",
            "DockerVersion", "Author", "Config", "Architecture", "Size">>

FieldNames == {Fields[i] : i \in 1..Len(Fields)}

\* the JSON key of each field of DockerV1CompatibilityImage
KeyOf == [f \in FieldNames |->
            CASE f = "ID" -> "i" [] f = "Parent" -> "p" [] f = "Comment" -> "c"
              [] f = "Created" -> "t" [] f = "Container" -> "n" [] f = "ContainerConfig" -> "g"
              [] f = "DockerVersion" -> "v" [] f = "Author" -> "u" [] f = "Config" -> "f"
              [] f = "Architecture" -> "r" [] f = "Size" -> "s"]

\* the zero value of a field, and the values a JSON text can carry
Zero == "0"
Values == {"0", "1", "2"}

ZeroRecord == [f \in FieldNames |-> Zero]

JsonError == [kind |-> "ManifestDecodeError"]

\* json.Unmarshal into a fresh DockerV1CompatibilityImage: absent keys keep
\* the zero value, unknown keys are skipped, a repeated key keeps the last.
RECURSIVE DecodePairs(_, _)
DecodePairs(body, acc) ==
    IF Len(body) = 0 THEN [err |-> Nil, val |-> acc]
    ELSE IF Len(body) = 1 \/ body[2] \notin Values THEN [err |-> JsonError, val |-> ZeroRecord]
    ELSE LET hit == {f \in FieldNames : KeyOf[f] = body[1]}
         IN  DecodePairs(SubSeq(body, 3, Len(body)),
                         [f \in FieldNames |-> IF f \in hit THEN body[2] ELSE acc[f]])

UnmarshalV1Compatibility(text) ==
    IF Len(text) < 2 \/ text[1] # "{" \/ text[Len(text)] # "}"
    THEN [err |-> JsonError, val |-> ZeroRecord]
    ELSE DecodePairs(SubSeq(text, 2, Len(text) - 1), ZeroRecord)

\* the entries of a history array body: 'blob' or 'blob','blob',...
RECURSIVE DecodeEntries(_, _)
DecodeEntries(body, acc) ==
    IF Len(body) < 2 \/ body[1] # "'" THEN [err |-> JsonError, History |-> <<>>]
    ELSE LET rest == SubSeq(body, 2, Len(body))
             k == Index(rest, "'")
         IN  IF k = 0 THEN [err |-> JsonError, History |-> <<>>]
             ELSE LET blob == SubSeq(rest, 1, k - 1)
                      after == SubSeq(rest, k + 1, Len(rest))
                  IN  IF Len(after) = 0 THEN [err |-> Nil, History |-> Append(acc, blob)]
                      ELSE IF after[1] # "," THEN [err |-> JsonError, History |-> <<>>]
                      ELSE DecodeEntries(SubSeq(after, 2, Len(after)), Append(acc, blob))

\* json.Unmarshal into a fresh DockerImageManifest
UnmarshalManifest(text) ==
    IF text = <<"{", "}">> THEN [err |-> Nil, History |-> <<>>]
    ELSE IF Len(text) < 2 \/ text[1] # "[" \/ text[Len(text)] # "]"
    THEN [err |-> JsonError, History |-> <<>>]
    ELSE IF Len(text) = 2 THEN [err |-> Nil, History |-> <<>>]
    ELSE DecodeEntries(SubSeq(text, 2, Len(text) - 1), <<>>)

\* ------------------------------------------- manifest metadata extractor
\* a *T result: <<>> is the nil pointer, <<v>> points at v
NilPtr == <<>>
Ptr(v) == <<v>>

Project(image, v1Metadata) ==
    [image EXCEPT !.DockerImageMetadata.ID = v1Metadata.ID,
                  !.DockerImageMetadata.Parent = v1Metadata.Parent,
                  !.DockerImageMetadata.Comment = v1Metadata.Comment,
                  !.DockerImageMetadata.Created = v1Metadata.Created,
                  !.DockerImageMetadata.Container = v1Metadata.Container,
                  !.DockerImageMetadata.ContainerConfig = v1Metadata.ContainerConfig,
                  !.DockerImageMetadata.DockerVersion = v1Metadata.DockerVersion,
                  !.DockerImageMetadata.Author = v1Metadata.Author,
                  !.DockerImageMetadata.Config = v1Metadata.Config,
                  !.DockerImageMetadata.Architecture = v1Metadata.Architecture,
                  !.DockerImageMetadata.Size = v1Metadata.Size]

\* ImageWithMetadata reading the last history entry instead of the first
ImageWithMetadataLastEntry(image0) ==
    IF Len(image0.DockerImageManifest) = 0 THEN [ptr |-> Ptr(image0), err |-> Nil]
    ELSE LET image == [image0 EXCEPT !.DockerImageManifest = <<>>]
             manifest == UnmarshalManifest(image0.DockerImageManifest)
         IN  IF manifest.err # Nil THEN [ptr |-> NilPtr, err |-> manifest.err]
             ELSE IF Len(manifest.History) = 0 THEN [ptr |-> Ptr(image), err |-> Nil]
             ELSE LET v1 == UnmarshalV1Compatibility(manifest.History[Len(manifest.History)])
                  IN  IF v1.err # Nil THEN [ptr |-> NilPtr, err |-> v1.err]
                      ELSE [ptr |-> Ptr(Project(image, v1.val)), err |-> Nil]

\* ImageWithMetadata clearing the manifest only after the extraction
ImageWithMetadataLateClear(image0) ==
    IF Len(image0.DockerImageManifest) = 0 THEN [ptr |-> Ptr(image0), err |-> Nil]
    ELSE LET manifest == UnmarshalManifest(image0.DockerImageManifest)
         IN  IF manifest.err # Nil THEN [ptr |-> NilPtr, err |-> manifest.err]
             ELSE IF Len(manifest.History) = 0 THEN [ptr |-> Ptr(image0), err |-> Nil]
             ELSE LET v1 == UnmarshalV1Compatibility(manifest.History[1])
                  IN  IF v1.err # Nil THEN [ptr |-> NilPtr, err |-> v1.err]
                      ELSE [ptr |-> Ptr(Project([image0 EXCEPT !.DockerImageManifest = <<>>], v1.val)),
                            err |-> Nil]

ImageWithMetadata(image0) ==
    IF Len(image0.DockerImageManifest) = 0 THEN [ptr |-> Ptr(image0), err |-> Nil]
    ELSE LET manifestData == image0.DockerImageManifest
             image == [image0 EXCEPT !.DockerImageManifest = <<>>]
             manifest == UnmarshalManifest(manifestData)
         IN  IF manifest.err # Nil THEN [ptr |-> NilPtr, err |-> manifest.err]
             ELSE IF Len(manifest.History) = 0 THEN [ptr |-> Ptr(image), err |-> Nil]
             ELSE LET v1 == UnmarshalV1Compatibility(manifest.History[1])
                      v1Metadata == v1.val
                  IN  IF v1.err # Nil THEN [ptr |-> NilPtr, err |-> v1.err]
                      ELSE [ptr |-> Ptr(Project(image, v1Metadata)), err |-> Nil]

\* ---------------------------------------------------------- tag resolver
TagError(kind, repo, tag) ==
    [kind |-> kind, namespace |-> repo.Namespace, name |-> repo.Name, tag |-> tag]

\* LatestTaggedImage returning the last item of the history
LatestTaggedImageLast(repo, tag) ==
    IF tag \notin DOMAIN repo.Tags
    THEN [ptr |-> NilPtr, err |-> TagError("TagNotDeclared", repo, tag)]
    ELSE IF tag \notin DOMAIN repo.Status.Tags
    THEN [ptr |-> NilPtr, err |-> TagError("TagHistoryMissing", repo, tag)]
    ELSE LET tagHistory == repo.Status.Tags[tag]
         IN  IF Len(tagHistory.Items) = 0
             THEN [ptr |-> NilPtr, err |-> TagError("TagHistoryEmpty", repo, tag)]
             ELSE [ptr |-> Ptr(tagHistory.Items[Len(tagHistory.Items)]), err |-> Nil]

LatestTaggedImage(repo, tag) ==
    IF tag \notin DOMAIN repo.Tags
    THEN [ptr |-> NilPtr, err |-> TagError("TagNotDeclared", repo, tag)]
    ELSE IF tag \notin DOMAIN repo.Status.Tags
    THEN [ptr |-> NilPtr, err |-> TagError("TagHistoryMissing", repo, tag)]
    ELSE LET tagHistory == repo.Status.Tags[tag]
         IN  IF Len(tagHistory.Items) = 0
             THEN [ptr |-> NilPtr, err |-> TagError("TagHistoryEmpty", repo, tag)]
             ELSE [ptr |-> Ptr(tagHistory.Items[1]), err |-> Nil]

\* ---------------------------------------------------------------- inputs
SpecInputs == SeqsUpTo(SpecChars, MaxLen)

\* the components handed to JoinDockerPullSpec
CompInputs == SeqsUpTo({"a", "b"}, MaxCompLen)
RefInputs == SeqsUpTo({"a", ":"}, MaxRefLen)
JoinInputs ==
    [registry : CompInputs, namespace : CompInputs, name : CompInputs, ref : RefInputs]

\* compatibility records: all zero, all "1", and one field set to "1" or "2"
V1Records ==
    {ZeroRecord, [f \in FieldNames |-> "1"]}
        \cup {[ZeroRecord EXCEPT ![g] = "1"] : g \in FieldNames}
        \cup {[ZeroRecord EXCEPT ![g] = "2"] : g \in {"ID", "Size"}}

RECURSIVE EncodeFields(_, _)
EncodeFields(r, i) ==
    IF i > Len(Fields) THEN <<>>
    ELSE (IF r[Fields[i]] = Zero THEN <<>> ELSE <<KeyOf[Fields[i]], r[Fields[i]]>>)
         \o EncodeFields(r, i + 1)

EncodeV1(r) == <<"{">> \o EncodeFields(r, 1) \o <<"}">>

\* well-formed texts, a repeated key, an unknown key, and undecodable texts
BlobInputs ==
    {EncodeV1(r) : r \in V1Records}
        \cup {<<"{", "i", "1", "i", "2", "}">>, <<"{", "x", "1", "p", "2", "}">>}
        \cup {<<>>, <<"{", "i", "}">>, <<"{", "i", "1">>}

RECURSIVE EncodeEntries(_)
EncodeEntries(h) ==
    IF Len(h) = 0 THEN <<>>
    ELSE <<"'">> \o Head(h) \o <<"'">>
         \o (IF Len(h) = 1 THEN <<>> ELSE <<",">>) \o EncodeEntries(Tail(h))

EncodeManifest(h) == <<"[">> \o EncodeEntries(h) \o <<"]">>

ManifestInputs ==
    {EncodeManifest(h) : h \in SeqsUpTo(BlobInputs, MaxHistory)}
        \cup {<<>>, <<"{", "}">>, <<"[">>, <<"x">>, <<"[", "'", "{", "}", "]">>,
              <<"[", "'", "{", "}", "'", "'", "{", "}", "'", "]">>,
              <<"[", "'", "{", "}", "'", ",", "]">>}

ImageInputs ==
    [DockerImageManifest : ManifestInputs,
     DockerImageMetadata : {ZeroRecord, [f \in FieldNames |-> "2"]}]

TagNames == {"latest", "v1"}
TagEvents == {"A", "B"}
TagEventLists == [Items : SeqsUpTo(TagEvents, MaxItems)]

Maps(K, V) == UNION {[D -> V] : D \in SUBSET K}

RepoInputs ==
    {[Namespace |-> "ns", Name |-> "repo", Tags |-> t, Status |-> [Tags |-> st]] :
        t \in Maps(TagNames, {"tagref"}), st \in Maps(TagNames, TagEventLists)}

LatestInputs == [repo : RepoInputs, tag : TagNames]

ParseOps == {"SplitOpenShiftPullSpec", "SplitDockerPullSpec", "IsPullSpec"}

NoResult == [kind |-> "none"]

Init ==
    /\ pc = "call"
    /\ res = NoResult
    /\ \/ op \in ParseOps /\ arg \in SpecInputs
       \/ op = "JoinDockerPullSpec" /\ arg \in JoinInputs
       \/ op = "ImageWithMetadata" /\ arg \in ImageInputs
       \/ op = "LatestTaggedImage" /\ arg \in LatestInputs

CallSplitOpenShiftPullSpec ==
    /\ pc = "call" /\ op = "SplitOpenShiftPullSpec"
    /\ res' = SplitOpenShiftPullSpec(arg)
    /\ pc' = "done"
    /\ UNCHANGED <<op, arg>>

CallSplitDockerPullSpec ==
    /\ pc = "call" /\ op = "SplitDockerPullSpec"
    /\ res' = SplitDockerPullSpec(arg)
    /\ pc' = "done"
    /\ UNCHANGED <<op, arg>>

CallIsPullSpec ==
    /\ pc = "call" /\ op = "IsPullSpec"
    /\ res' = IsPullSpec(arg)
    /\ pc' = "done"
    /\ UNCHANGED <<op, arg>>

CallJoinDockerPullSpec ==
    /\ pc = "call" /\ op = "JoinDockerPullSpec"
    /\ res' = JoinDockerPullSpec(arg.registry, arg.namespace, arg.name, arg.ref)
    /\ pc' = "done"
    /\ UNCHANGED <<op, arg>>

CallImageWithMetadata ==
    /\ pc = "call" /\ op = "ImageWithMetadata"
    /\ res' = ImageWithMetadata(arg)
    /\ pc' = "done"
    /\ UNCHANGED <<op, arg>>

CallLatestTaggedImage ==
    /\ pc = "call" /\ op = "LatestTaggedImage"
    /\ res' = LatestTaggedImage(arg.repo, arg.tag)
    /\ pc' = "done"
    /\ UNCHANGED <<op, arg>>

Next ==
    \/ CallSplitOpenShiftPullSpec
    \/ CallSplitDockerPullSpec
    \/ CallIsPullSpec
    \/ CallJoinDockerPullSpec
    \/ CallImageWithMetadata
    \/ CallLatestTaggedImage

Spec == Init /\ [][Next]_vars

\* the same calls on pull specs that carry no digest: the parser's inputs
\* have no '@', so a ref can only be a tag after the last ':'
InitNoDigest == Init /\ (op \in ParseOps => ~Contains(arg, "@"))

SpecNoDigest == InitNoDigest /\ [][Next]_vars

\* ================================================================ claims
Parsed == pc = "done" /\ op \in {"SplitOpenShiftPullSpec", "SplitDockerPullSpec"}
Extracted == pc = "done" /\ op = "ImageWithMetadata"
Resolved == pc = "done" /\ op = "LatestTaggedImage"

\* what is left of the input once the ref is stripped, and the ref
Stripped == ParseRepositoryTag(arg)[1]
StrippedRef == ParseRepositoryTag(arg)[2]

Slashes(s) == Cardinality({i \in 1..Len(s) : s[i] = "/"})
StartsWithSlash(s) == Len(s) > 0 /\ s[1] = "/"

\* C1: Parse strips the ref, and on the slash-separated segments of the rest
\* returns ("", "", seg0, ref) for one non-empty segment, ("", seg0, seg1, ref)
\* for two and (seg0, seg1, seg2, ref) for three, each without error; it fails
\* with InvalidSpec for one empty segment and for four or more segments.
C1_SegmentPolicy ==
    Parsed =>
        LET n == Slashes(Stripped) + 1
        IN  /\ (n = 1 /\ Stripped # <<>>) =>
                  /\ res.err = Nil /\ res.ref = StrippedRef
                  /\ res.registry = <<>> /\ res.namespace = <<>> /\ res.name = Stripped
            /\ n = 2 =>
                  /\ res.err = Nil /\ res.ref = StrippedRef
                  /\ res.registry = <<>>
                  /\ Slashes(res.namespace) = 0 /\ Slashes(res.name) = 0
                  /\ res.namespace \o <<"/">> \o res.name = Stripped
            /\ n = 3 =>
                  /\ res.err = Nil /\ res.ref = StrippedRef
                  /\ Slashes(res.registry) = 0 /\ Slashes(res.namespace) = 0 /\ Slashes(res.name) = 0
                  /\ res.registry \o <<"/">> \o res.namespace \o <<"/">> \o res.name = Stripped
            /\ (Stripped = <<>> \/ n >= 4) => res.err.kind = "InvalidSpec"

C1_Witness ==
    /\ Parsed
    /\ arg = <<"b", "/", "a", "/", "a", ":", "b">>
    /\ res = PullSpec(<<"b">>, <<"a">>, <<"a">>, <<"b">>, Nil)

\* C2: Join returns name+R when namespace and registry are empty, namespace/name+R
\* when only the registry is empty, registry/library/name+R when only the namespace
\* is empty and registry/namespace/name+R otherwise, where R is "" for an empty ref,
\* "@"+ref for a ref with a colon and ":"+ref for one without.
Rendered(ref) ==
    IF ref = <<>> THEN <<>>
    ELSE IF \E i \in 1..Len(ref) : ref[i] = ":" THEN <<"@">> \o ref
    ELSE <<":">> \o ref

C2_JoinCases ==
    (pc = "done" /\ op = "JoinDockerPullSpec") =>
        LET R == Rendered(arg.ref)
        IN  /\ (arg.namespace = <<>> /\ arg.registry = <<>>) => res = arg.name \o R
            /\ (arg.namespace # <<>> /\ arg.registry = <<>>) =>
                  res = arg.namespace \o <<"/">> \o arg.name \o R
            /\ (arg.namespace = <<>> /\ arg.registry # <<>>) =>
                  res = arg.registry \o <<"/", "l", "i", "b", "r", "a", "r", "y", "/">> \o arg.name \o R
            /\ (arg.namespace # <<>> /\ arg.registry # <<>>) =>
                  res = arg.registry \o <<"/">> \o arg.namespace \o <<"/">> \o arg.name \o R

C2_Witness ==
    /\ pc = "done" /\ op = "JoinDockerPullSpec"
    /\ arg.registry = <<"a">> /\ arg.namespace = <<>> /\ arg.name = <<"b">> /\ arg.ref = <<"a", ":">>
    /\ res = <<"a", "/", "l", "i", "b", "r", "a", "r", "y", "/", "b", "@", "a", ":">>

\* C3: LatestTaggedImage fails with TagNotDeclared when the tag is no key of
\* repo.Tags, else with TagHistoryMissing when it is no key of repo.Status.Tags,
\* else with TagHistoryEmpty when its history has no items, and else returns
\* the item at index 0 of the history without error.
C3_LatestTaggedImage ==
    Resolved =>
        LET declared == arg.tag \in DOMAIN arg.repo.Tags
            recorded == arg.tag \in DOMAIN arg.repo.Status.Tags
        IN  /\ ~declared => (res.ptr = NilPtr /\ res.err.kind = "TagNotDeclared")
            /\ (declared /\ ~recorded) => (res.ptr = NilPtr /\ res.err.kind = "TagHistoryMissing")
            /\ (declared /\ recorded /\ arg.repo.Status.Tags[arg.tag].Items = <<>>) =>
                  (res.ptr = NilPtr /\ res.err.kind = "TagHistoryEmpty")
            /\ (declared /\ recorded /\ arg.repo.Status.Tags[arg.tag].Items # <<>>) =>
                  (res.err = Nil /\ res.ptr = <<Head(arg.repo.Status.Tags[arg.tag].Items)>>)

C3_Witness ==
    /\ Resolved
    /\ arg.tag = "latest"
    /\ "latest" \in DOMAIN arg.repo.Tags
    /\ "latest" \in DOMAIN arg.repo.Status.Tags
    /\ arg.repo.Status.Tags["latest"].Items = <<"A", "B">>
    /\ res = [ptr |-> <<"A">>, err |-> Nil]

\* C4: when the manifest decodes with a non-empty history and history[0]
\* decodes, the returned image carries the eleven metadata fields of history[0]
\* alone, has an empty raw manifest, and no error is returned.
C4_Extraction ==
    Extracted =>
        LET manifest == UnmarshalManifest(arg.DockerImageManifest)
        IN  (/\ arg.DockerImageManifest # <<>>
             /\ manifest.err = Nil
             /\ manifest.History # <<>>
             /\ UnmarshalV1Compatibility(manifest.History[1]).err = Nil) =>
                /\ res.err = Nil
                /\ Len(res.ptr) = 1
                /\ res.ptr[1].DockerImageManifest = <<>>
                /\ \A f \in FieldNames :
                      res.ptr[1].DockerImageMetadata[f] =
                          UnmarshalV1Compatibility(manifest.History[1]).val[f]

C4_Witness ==
    /\ Extracted
    /\ arg.DockerImageManifest =
          <<"[", "'", "{", "p", "1", "}", "'", ",", "'", "{", "i", "2", "}", "'", "]">>
    /\ arg.DockerImageMetadata = [f \in FieldNames |-> "2"]
    /\ res.err = Nil
    /\ res.ptr = <<[DockerImageManifest |-> <<>>,
                    DockerImageMetadata |-> [ZeroRecord EXCEPT !.Parent = "1"]]>>

\* C5 as stated: every input on which Parse succeeds with an empty registry
\* is reproduced by Join of the four components.
C5_RoundTripAll ==
    (Parsed /\ res.err = Nil /\ res.registry = <<>>) =>
        JoinDockerPullSpec(res.registry, res.namespace, res.name, res.ref) = arg

\* the ref suffix of the input is written the way Join writes it
CanonicalRef ==
    \/ arg = Stripped
    \/ /\ StrippedRef # <<>>
       /\ ~Contains(StrippedRef, ":")
       /\ arg = Stripped \o <<":">> \o StrippedRef
    \/ /\ Contains(StrippedRef, ":")
       /\ arg = Stripped \o <<"@">> \o StrippedRef

\* C5: an input on which Parse succeeds with an empty registry is reproduced
\* by Join of the four components exactly when it does not begin with '/' and
\* its ref suffix is absent, ':' and a non-empty tag, or '@' and a ref that
\* contains a colon.
C5_RoundTrip ==
    (Parsed /\ res.err = Nil /\ res.registry = <<>>) =>
        (JoinDockerPullSpec(res.registry, res.namespace, res.name, res.ref) = arg
            <=> (~StartsWithSlash(arg) /\ CanonicalRef))

C5_Witness ==
    /\ Parsed
    /\ arg = <<"a", "/", "b", "@", "a", ":">>
    /\ res = PullSpec(<<>>, <<"a">>, <<"b">>, <<"a", ":">>, Nil)
    /\ JoinDockerPullSpec(res.registry, res.namespace, res.name, res.ref) = arg

\* C6: the name of a successfully parsed spec is never empty.
C6_NameNonEmpty ==
    (Parsed /\ res.err = Nil) => res.name # <<>>

\* C7: Parse never succeeds with a non-empty registry and an empty namespace.
C7_NoRegistryWithoutNamespace ==
    (Parsed /\ res.err = Nil) => ~(res.registry # <<>> /\ res.namespace = <<>>)

\* C8 as stated: a manifest that decodes with an empty history is returned
\* with the raw manifest as it was given, the metadata unchanged and no error.
C8_ManifestPreserved ==
    (/\ Extracted
     /\ arg.DockerImageManifest # <<>>
     /\ UnmarshalManifest(arg.DockerImageManifest).err = Nil
     /\ UnmarshalManifest(arg.DockerImageManifest).History = <<>>) =>
        /\ res.err = Nil
        /\ Len(res.ptr) = 1
        /\ res.ptr[1].DockerImageManifest = arg.DockerImageManifest
        /\ res.ptr[1].DockerImageMetadata = arg.DockerImageMetadata

\* C8: a non-empty manifest that decodes with an empty history is returned
\* without error and with the metadata unchanged, and its raw manifest field
\* is cleared.
C8_ManifestCleared ==
    (/\ Extracted
     /\ arg.DockerImageManifest # <<>>
     /\ UnmarshalManifest(arg.DockerImageManifest).err = Nil
     /\ UnmarshalManifest(arg.DockerImageManifest).History = <<>>) =>
        /\ res.err = Nil
        /\ Len(res.ptr) = 1
        /\ res.ptr[1].DockerImageManifest = <<>>
        /\ res.ptr[1].DockerImageMetadata = arg.DockerImageMetadata

C8_Witness ==
    /\ Extracted
    /\ arg.DockerImageManifest = <<"[", "]">>
    /\ arg.DockerImageMetadata = [f \in FieldNames |-> "2"]
    /\ res = [ptr |-> <<[DockerImageManifest |-> <<>>,
                         DockerImageMetadata |-> [f \in FieldNames |-> "2"]]>>,
              err |-> Nil]

\* C9: the message of an InvalidSpec failure includes the input string as
\* the caller passed it.
C9_MessageHasInput ==
    (Parsed /\ res.err # Nil) => IsSubstring(arg, res.err.msg)

\* C10: every failure returns a zero result with the error: a failed Parse
\* returns four empty strings, a failed ImageWithMetadata or LatestTaggedImage
\* returns a nil pointer.
C10_ZeroOnFailure ==
    /\ (Parsed /\ res.err # Nil) =>
          (res.registry = <<>> /\ res.namespace = <<>> /\ res.name = <<>> /\ res.ref = <<>>)
    /\ ((Extracted \/ Resolved) /\ res.err # Nil) => res.ptr = NilPtr

====
